---- MODULE Spec2Model ----
(***************************************************************************)
(* Model of plugins/shared/structs/attribute.go: the Attribute value, its  *)
(* validation, the ParseAttribute heuristic and the Compare algorithm.     *)
(*                                                                         *)
(* Strings are sequences of one-character strings, so that suffix tests,   *)
(* trimming and number syntax are computed rather than assumed.            *)
(* 64-bit integers, 64-bit floats and 256-bit big.Float values are built   *)
(* from arbitrary-size naturals ("Big": little-endian limbs in base 2^15), *)
(* because the values the code handles exceed 32-bit model integers.      *)
(***************************************************************************)
EXTENDS Integers, Sequences, FiniteSets, TLC

VARIABLES
  pc,     \* what the caller has done so far
  input,  \* the string given to ParseAttribute
  a, b,   \* the attributes at hand
  calls,  \* the strconv calls ParseAttribute made
  err,    \* what Validate returned for a
  ret,    \* what a.Compare(b) did
  ret2    \* what b.Compare(a) did

vars == <<pc, input, a, b, calls, err, ret, ret2>>

(***************************************************************************)
(* Arbitrary-size naturals.  A Big is a sequence of limbs, least           *)
(* significant first, each in 0..LimbBase-1, with no leading zero limb;    *)
(* <<>> is zero.                                                           *)
(***************************************************************************)
\* one bit short of 16, so that the product of two limbs fits a 32-bit integer
LimbBits == 16 - 1

LimbBase == 2^15

Max(x, y) == IF x >= y THEN x ELSE y

SetMax(S) == CHOOSE m \in S : \A n \in S : n <= m

\* x without its leading zero limbs
BNorm(x) == SubSeq(x, 1, SetMax({0} \cup {i \in 1..Len(x) : x[i] # 0}))

\* the Big of a natural below 2^31
BFromNat(n) ==
  BNorm(<<n % LimbBase, (n \div LimbBase) % LimbBase, n \div (LimbBase * LimbBase)>>)

Limb(x, i) == IF 1 <= i /\ i <= Len(x) THEN x[i] ELSE 0

\* -1, 0, +1 as x < y, x = y, x > y
BCmp(x, y) ==
  IF Len(x) < Len(y) THEN -1
  ELSE IF Len(x) > Len(y) THEN 1
  ELSE LET D == {i \in 1..Len(x) : x[i] # y[i]}
       IN  IF D = {} THEN 0
           ELSE IF x[SetMax(D)] < y[SetMax(D)] THEN -1 ELSE 1

\* the carry into limb i of x + y: some lower limb generates one and every
\* limb between passes it on
BCarry(x, y, i) ==
  \E j \in 1..(i - 1) :
     /\ Limb(x, j) + Limb(y, j) >= LimbBase
     /\ \A k \in (j + 1)..(i - 1) : Limb(x, k) + Limb(y, k) = LimbBase - 1

BAdd(x, y) ==
  BNorm([i \in 1..(Max(Len(x), Len(y)) + 1) |->
           (Limb(x, i) + Limb(y, i) + (IF BCarry(x, y, i) THEN 1 ELSE 0)) % LimbBase])

\* the borrow from limb i of x - y
BBorrow(x, y, i) ==
  \E j \in 1..(i - 1) :
     /\ Limb(x, j) < Limb(y, j)
     /\ \A k \in (j + 1)..(i - 1) : Limb(x, k) = Limb(y, k)

\* x - y, for x >= y
BSub(x, y) ==
  BNorm([i \in 1..Len(x) |->
           (Limb(x, i) - Limb(y, i) - (IF BBorrow(x, y, i) THEN 1 ELSE 0)) % LimbBase])

\* x * k, for 0 <= k < LimbBase: the low halves of the limb products plus
\* their high halves one limb up
BMulSmall(x, k) ==
  BAdd(BNorm([i \in 1..Len(x) |-> (x[i] * k) % LimbBase]),
       BNorm(<<0>> \o [i \in 1..Len(x) |-> (x[i] * k) \div LimbBase]))

BShiftLimbs(x, n) == IF x = <<>> THEN <<>> ELSE [i \in 1..n |-> 0] \o x

\* x * y, one limb of y at a time from limb i up
RECURSIVE BMulFrom(_, _, _, _)
BMulFrom(x, y, i, acc) ==
  IF i > Len(y) THEN acc
  ELSE LET acc2 == BAdd(acc, BShiftLimbs(BMulSmall(x, y[i]), i - 1))
       IN  IF acc2 = acc2 THEN BMulFrom(x, y, i + 1, acc2) ELSE acc

BMul(x, y) ==
  IF Len(x) >= Len(y) THEN BMulFrom(x, y, 1, <<>>) ELSE BMulFrom(y, x, 1, <<>>)

\* the number of bits of a natural below LimbBase
SmallBitLen(n) == CHOOSE k \in 0..LimbBits : n < 2^k /\ (k = 0 \/ 2^(k - 1) <= n)

BBitLen(x) ==
  IF x = <<>> THEN 0 ELSE LimbBits * (Len(x) - 1) + SmallBitLen(x[Len(x)])

\* x * 2^n
BShl(x, n) ==
  LET r == n % LimbBits
  IN  BShiftLimbs(
        BNorm([i \in 1..(Len(x) + 1) |->
                 (Limb(x, i) % (2^(LimbBits - r))) * (2^r)
                 + Limb(x, i - 1) \div (2^(LimbBits - r))]),
        n \div LimbBits)

\* floor(x / 2^n)
BShr(x, n) ==
  LET k == n \div LimbBits
      r == n % LimbBits
  IN  BNorm([i \in 1..(Len(x) - k) |->
               Limb(x, i + k) \div (2^r)
               + (Limb(x, i + k + 1) % (2^r)) * (2^(LimbBits - r))])

\* x mod 2^n
BLow(x, n) ==
  LET k == n \div LimbBits
  IN  IF k >= Len(x) THEN x
      ELSE BNorm(SubSeq(x, 1, k) \o <<x[k + 1] % (2^(n % LimbBits))>>)

BPow2(n) == BShl(<<1>>, n)

BIsOdd(x) == x # <<>> /\ x[1] % 2 = 1

DigitStep == 2^5

\* the largest d = acc + k * unit, 0 <= k < DigitStep, with y * d <= r
BQuoPart(r, y, acc, unit) ==
  acc + unit * SetMax({k \in 0..(DigitStep - 1) :
                         BCmp(BMulSmall(y, acc + k * unit), r) <= 0})

\* the largest d < LimbBase with y * d <= r: one digit of a long division,
\* found five bits at a time
BQuoDigit(r, y) ==
  LET hi  == BQuoPart(r, y, 0, DigitStep * DigitStep)
      mid == BQuoPart(r, y, hi, DigitStep)
  IN  BQuoPart(r, y, mid, 1)

\* quotient and remainder of x by y (y # 0), by long division from limb i
\* of x downwards; q holds the quotient limbs found so far
RECURSIVE BDivModFrom(_, _, _, _, _)
BDivModFrom(x, y, i, q, r) ==
  IF i = 0 THEN [q |-> BNorm(q), r |-> r]
  ELSE LET cur == BNorm(<<x[i]>> \o r)
           d   == BQuoDigit(cur, y)
           r2  == BSub(cur, BMulSmall(y, d))
           q2  == <<d>> \o q
       IN  IF r2 = r2 /\ q2 = q2
           THEN BDivModFrom(x, y, i - 1, q2, r2)
           ELSE [q |-> q, r |-> r]

BDivMod(x, y) == BDivModFrom(x, y, Len(x), <<>>, <<>>)

(***************************************************************************)
(* int64: sign and magnitude, [neg, mag] with mag a Big; zero has neg      *)
(* FALSE.  Arithmetic wraps as Go's does (two's complement, 64 bits).      *)
(***************************************************************************)
IntBits == 64

I64(n) == [neg |-> n < 0, mag |-> BFromNat(IF n < 0 THEN -n ELSE n)]

MinInt64 == [neg |-> TRUE, mag |-> BPow2(IntBits - 1)]

MaxInt64 == [neg |-> FALSE, mag |-> BSub(BPow2(IntBits - 1), <<1>>)]

\* the int64 holding the low 64 bits of the integer (-1)^neg * mag
I64Wrap(neg, mag) ==
  LET low == BLow(mag, IntBits)
      u   == IF neg /\ low # <<>> THEN BSub(BPow2(IntBits), low) ELSE low
  IN  IF BCmp(u, BPow2(IntBits - 1)) >= 0
      THEN [neg |-> TRUE, mag |-> BSub(BPow2(IntBits), u)]
      ELSE [neg |-> FALSE, mag |-> u]

\* Go's i * m on int64
I64Mul(i, m) == I64Wrap(i.neg # m.neg, BMul(i.mag, m.mag))

\* Go's i / m on int64 (truncated towards zero), m # 0
I64Quo(i, m) ==
  LET q == BDivMod(i.mag, m.mag).q
  IN  I64Wrap(i.neg # m.neg /\ q # <<>>, q)

\* -1, 0, +1 as i < j, i = j, i > j
I64Cmp(i, j) ==
  IF i.neg /\ ~j.neg THEN -1
  ELSE IF ~i.neg /\ j.neg THEN 1
  ELSE IF i.neg THEN BCmp(j.mag, i.mag)
  ELSE BCmp(i.mag, j.mag)

(***************************************************************************)
(* float64: [cls, neg, mant, exp]; a "fin" value is (-1)^neg * mant * 2^exp *)
(* with mant a Big of at most 53 bits (mant = <<>> is a signed zero).      *)
(***************************************************************************)
F64NaN == [cls |-> "nan", neg |-> FALSE, mant |-> <<>>, exp |-> 0]

F64Inf(neg) == [cls |-> "inf", neg |-> neg, mant |-> <<>>, exp |-> 0]

F64Fin(neg, mant, exp) == [cls |-> "fin", neg |-> neg, mant |-> mant, exp |-> exp]

(***************************************************************************)
(* big.Float: [form, neg, mant, exp]; a "finite" value is                  *)
(* (-1)^neg * mant * 2^exp with mant # <<>> of at most prec bits.          *)
(***************************************************************************)
floatPrecision == 256

BFZero(neg) == [form |-> "zero", neg |-> neg, mant |-> <<>>, exp |-> 0]

BFInf(neg) == [form |-> "inf", neg |-> neg, mant |-> <<>>, exp |-> 0]

\* mant * 2^exp, plus a non-zero part below it when sticky, rounded to prec
\* bits to nearest, ties to even (big.ToNearestEven, the default mode)
BFRound(neg, mant, exp, sticky, prec) ==
  LET drop == BBitLen(mant) - prec
  IN  IF drop <= 0
      THEN [form |-> "finite", neg |-> neg, mant |-> mant, exp |-> exp]
      ELSE LET q    == BShr(mant, drop)
               low  == BLow(mant, drop)
               c    == BCmp(low, BPow2(drop - 1))
               up   == c > 0 \/ (c = 0 /\ (sticky \/ BIsOdd(q)))
           IN  [form |-> "finite", neg |-> neg,
                mant |-> IF up THEN BAdd(q, <<1>>) ELSE q,
                exp  |-> exp + drop]

\* (*big.Float).SetInt64 at precision floatPrecision
BFSetInt64(i) ==
  IF i.mag = <<>> THEN BFZero(FALSE)
  ELSE BFRound(i.neg, i.mag, 0, FALSE, floatPrecision)

\* (*big.Float).SetFloat64: panics with ErrNaN on a NaN
BFSetFloat64(x) ==
  IF x.cls = "nan" THEN [form |-> "panic"]
  ELSE IF x.cls = "inf" THEN BFInf(x.neg)
  ELSE IF x.mant = <<>> THEN BFZero(x.neg)
  ELSE BFRound(x.neg, x.mant, x.exp, FALSE, floatPrecision)

\* z.Mul(x, y) at precision floatPrecision: panics with ErrNaN on 0 * Inf
BFMul(x, y) ==
  LET neg == x.neg # y.neg
  IN  IF (x.form = "zero" /\ y.form = "inf") \/ (x.form = "inf" /\ y.form = "zero")
      THEN [form |-> "panic"]
      ELSE IF x.form = "inf" \/ y.form = "inf" THEN BFInf(neg)
      ELSE IF x.form = "zero" \/ y.form = "zero" THEN BFZero(neg)
      ELSE BFRound(neg, BMul(x.mant, y.mant), x.exp + y.exp, FALSE, floatPrecision)

\* xm * 2^xe / (ym * 2^ye) for xm, ym # 0, rounded once to prec bits: the
\* quotient is taken with two bits more than the precision and a sticky bit
\* for the remainder
BQuoRoundTo(neg, qr, exp, prec) == BFRound(neg, qr.q, exp, qr.r # <<>>, prec)

BQuoShift(xm, ym, prec) == Max(0, prec + 2 + BBitLen(ym) - BBitLen(xm))

BQuoRound(neg, xm, xe, ym, ye, prec) ==
  BQuoRoundTo(neg, BDivMod(BShl(xm, BQuoShift(xm, ym, prec)), ym),
              xe - ye - BQuoShift(xm, ym, prec), prec)

\* z.Quo(x, y) at precision floatPrecision, for finite or zero x and y;
\* panics with ErrNaN on 0 / 0
BFQuo(x, y) ==
  LET neg == x.neg # y.neg
  IN  IF x.form = "zero" /\ y.form = "zero" THEN [form |-> "panic"]
      ELSE IF x.form = "zero" THEN BFZero(neg)
      ELSE IF y.form = "zero" THEN BFInf(neg)
      ELSE BQuoRound(neg, x.mant, x.exp, y.mant, y.exp, floatPrecision)

\* the magnitudes of two finite values compared
BFCmpAbs(x, y) ==
  IF x.exp >= y.exp
  THEN BCmp(BShl(x.mant, x.exp - y.exp), y.mant)
  ELSE BCmp(x.mant, BShl(y.mant, y.exp - x.exp))

\* the rank of a value's magnitude and sign: -2 -Inf, -1 negative, 0 zero,
\* 1 positive, 2 +Inf
BFOrd(x) ==
  IF x.form = "zero" THEN 0
  ELSE IF x.form = "inf" THEN (IF x.neg THEN -2 ELSE 2)
  ELSE (IF x.neg THEN -1 ELSE 1)

\* x.Cmp(y): -1, 0, +1; -0 = +0 and equal infinities compare equal
BFCmp(x, y) ==
  IF BFOrd(x) < BFOrd(y) THEN -1
  ELSE IF BFOrd(x) > BFOrd(y) THEN 1
  ELSE IF x.form # "finite" THEN 0
  ELSE IF x.neg THEN BFCmpAbs(y, x)
  ELSE BFCmpAbs(x, y)

(***************************************************************************)
(* Strings: sequences of one-character strings over ASCII.                 *)
(***************************************************************************)
DigitSeq == <<"0", "1", "2", "3", "4", "5", "6", "7", "8", "9">>

UpperSeq == <<"A", "B", "C", "D", "E", "F", "G", "H", "I", "J", "K", "L", "M",
              "N", "O", "P", "Q", "R", "S", "T", "U", "V", "W", "X", "Y", "Z">>

LowerSeq == <<"a", "b", "c", "d", "e", "f", "g", "h", "i", "j", "k", "l", "m",
              "n", "o", "p", "q", "r", "s", "t", "u", "v", "w", "x", "y", "z">>

\* the characters in increasing byte order
ByteOrder == <<" ", "+", "-", ".", "/">> \o DigitSeq \o UpperSeq \o LowerSeq

Range(f) == {f[i] : i \in DOMAIN f}

Digits == Range(DigitSeq)

IndexIn(seq, c) == CHOOSE i \in DOMAIN seq : seq[i] = c

DigitVal(c) == IndexIn(DigitSeq, c) - 1

\* unicode.IsLetter, on an ASCII byte
IsLetter(c) == c \in Range(UpperSeq) \cup Range(LowerSeq)

\* unicode.IsSpace, on the one white-space character of the alphabet
IsSpace(c) == c = " "

ToLower(c) == IF c \in Range(UpperSeq) THEN LowerSeq[IndexIn(UpperSeq, c)] ELSE c

LowerStr(s) == [i \in 1..Len(s) |-> ToLower(s[i])]

SetMin(S) == CHOOSE m \in S : \A n \in S : m <= n

\* strings.HasSuffix
HasSuffix(s, suffix) ==
  /\ Len(suffix) <= Len(s)
  /\ SubSeq(s, Len(s) - Len(suffix) + 1, Len(s)) = suffix

\* strings.TrimSuffix
TrimSuffix(s, suffix) ==
  IF HasSuffix(s, suffix) THEN SubSeq(s, 1, Len(s) - Len(suffix)) ELSE s

\* strings.TrimSpace
TrimSpace(s) ==
  LET keep == {i \in 1..Len(s) : ~IsSpace(s[i])}
  IN  IF keep = {} THEN <<>> ELSE SubSeq(s, SetMin(keep), SetMax(keep))

\* strings.Compare: -1, 0, +1 by byte-wise lexicographic order
StringsCompare(s, t) ==
  LET D == {i \in 1..Len(s) : i <= Len(t) /\ s[i] # t[i]}
  IN  IF D # {}
      THEN (IF IndexIn(ByteOrder, s[SetMin(D)]) < IndexIn(ByteOrder, t[SetMin(D)])
            THEN -1 ELSE 1)
      ELSE IF Len(s) < Len(t) THEN -1
      ELSE IF Len(s) > Len(t) THEN 1
      ELSE 0

(***************************************************************************)
(* strconv.  Results are [ok, v]: ok is err == nil.                        *)
(***************************************************************************)
BoolTrue == {<<"1">>, <<"t">>, <<"T">>, <<"T", "R", "U", "E">>,
             <<"t", "r", "u", "e">>, <<"T", "r", "u", "e">>}

BoolFalse == {<<"0">>, <<"f">>, <<"F">>, <<"F", "A", "L", "S", "E">>,
              <<"f", "a", "l", "s", "e">>, <<"F", "a", "l", "s", "e">>}

\* strconv.ParseBool
ParseBool(s) ==
  IF s \in BoolTrue THEN [ok |-> TRUE, v |-> TRUE]
  ELSE IF s \in BoolFalse THEN [ok |-> TRUE, v |-> FALSE]
  ELSE [ok |-> FALSE, v |-> FALSE]

\* the natural written by the decimal digits ds, from digit i on
RECURSIVE BFromDigits(_, _, _)
BFromDigits(ds, i, acc) ==
  IF i > Len(ds) THEN acc
  ELSE LET acc2 == BAdd(BMulSmall(acc, 10), BFromNat(DigitVal(ds[i])))
       IN  IF acc2 = acc2 THEN BFromDigits(ds, i + 1, acc2) ELSE acc

RECURSIVE BPow10(_)
BPow10(k) == IF k = 0 THEN <<1>> ELSE BMulSmall(BPow10(k - 1), 10)

HasSign(s) == s # <<>> /\ s[1] \in {"+", "-"}

Unsigned(s) == IF HasSign(s) THEN Tail(s) ELSE s

\* strconv.ParseInt(s, 10, 64): an optional sign and decimal digits; a value
\* out of the int64 range is an error
ParseInt(s) ==
  LET ds  == Unsigned(s)
      neg == HasSign(s) /\ s[1] = "-"
      mag == BFromDigits(ds, 1, <<>>)
      lim == IF neg THEN MinInt64.mag ELSE MaxInt64.mag
  IN  IF ds = <<>> \/ \E i \in 1..Len(ds) : ds[i] \notin Digits
      THEN [ok |-> FALSE, v |-> I64(0)]
      ELSE IF BCmp(mag, lim) > 0 THEN [ok |-> FALSE, v |-> I64(0)]
      ELSE [ok |-> TRUE, v |-> [neg |-> neg /\ mag # <<>>, mag |-> mag]]

\* the number of low zero bits of a Big other than zero
BTrailingZeros(x) ==
  LET i == SetMin({k \in 1..Len(x) : x[k] # 0})
  IN  LimbBits * (i - 1) + SetMin({k \in 0..LimbBits : x[i] % (2^(k + 1)) # 0})

\* the float64 of value mant * 2^exp, mant of at most Float64MantBits bits,
\* written with an odd mantissa
F64Canon(neg, mant, exp) ==
  IF mant = <<>> THEN F64Fin(neg, <<>>, 0)
  ELSE F64Fin(neg, BShr(mant, BTrailingZeros(mant)), exp + BTrailingZeros(mant))

\* the width of a float64 (the 64 of ParseFloat)
Float64Bits == 64

\* a sign bit and 11 exponent bits leave 52 mantissa bits and the hidden one
Float64MantBits == Float64Bits - 11

\* strconv.ParseFloat(s, 64) on the decimal syntax without exponent:
\* [sign] digits [. digits] or [sign] . digits, rounded to the nearest float64
\* (ties to even); and on the special values: [sign] inf, [sign] infinity
\* and nan, in any case.  No input of the model carries an exponent, a hex
\* prefix or an underscore, and none is long enough to leave the normal range.
ParseFloat(s) ==
  LET body == Unsigned(s)
      neg  == HasSign(s) /\ s[1] = "-"
      dots == {i \in 1..Len(body) : body[i] = "."}
      dot  == IF dots = {} THEN Len(body) + 1 ELSE SetMin(dots)
      ds   == SubSeq(body, 1, dot - 1) \o SubSeq(body, dot + 1, Len(body))
      mag  == BFromDigits(ds, 1, <<>>)
      r    == BQuoRound(neg, mag, 0, BPow10(Max(0, Len(body) - dot)), 0, Float64MantBits)
  IN  IF LowerStr(body) \in {<<"i", "n", "f">>,
                             <<"i", "n", "f", "i", "n", "i", "t", "y">>}
      THEN [ok |-> TRUE, v |-> F64Inf(neg)]
      ELSE IF LowerStr(s) = <<"n", "a", "n">> THEN [ok |-> TRUE, v |-> F64NaN]
      ELSE IF \/ ds = <<>>
              \/ Cardinality(dots) > 1
              \/ \E i \in 1..Len(ds) : ds[i] \notin Digits
      THEN [ok |-> FALSE, v |-> F64Fin(FALSE, <<>>, 0)]
      ELSE IF mag = <<>> THEN [ok |-> TRUE, v |-> F64Fin(neg, <<>>, 0)]
      ELSE [ok |-> TRUE, v |-> F64Canon(neg, r.mant, r.exp)]

(***************************************************************************)
(* The unit registry (UnitIndex, lengthSortedUnits).  Its table is not in  *)
(* attribute.go; the names, dimensions and multipliers are those the       *)
(* specification gives: binary and decimal byte units, a byte rate,        *)
(* hertz, and watts with the inverse-multiplier unit mW.                   *)
(***************************************************************************)
UnitScalar == 0

UnitByte == 1

UnitByteRate == 2

UnitHertz == 3

UnitWatt == 4

MkUnit(name, base, mult, inv) ==
  [Name |-> name, Base |-> base, Multiplier |-> mult, InverseMultiplier |-> inv]

Units ==
  { MkUnit(<<"B">>, UnitByte, 1, FALSE),
    MkUnit(<<"K", "i", "B">>, UnitByte, 2^10, FALSE),
    MkUnit(<<"M", "i", "B">>, UnitByte, 2^20, FALSE),
    MkUnit(<<"G", "i", "B">>, UnitByte, 2^30, FALSE),
    MkUnit(<<"K", "B">>, UnitByte, 10^3, FALSE),
    MkUnit(<<"M", "B">>, UnitByte, 10^6, FALSE),
    MkUnit(<<"G", "B">>, UnitByte, 10^9, FALSE),
    MkUnit(<<"M", "B", "/", "s">>, UnitByteRate, 10^6, FALSE),
    MkUnit(<<"M", "H", "z">>, UnitHertz, 10^6, FALSE),
    MkUnit(<<"G", "H", "z">>, UnitHertz, 10^9, FALSE),
    MkUnit(<<"W">>, UnitWatt, 1, FALSE),
    MkUnit(<<"m", "W">>, UnitWatt, 10^3, TRUE) }

UnitNames == {u.Name : u \in Units}

\* UnitIndex: unit name -> unit
UnitIndex == [n \in UnitNames |-> CHOOSE u \in Units : u.Name = n]

\* the unit names, longest first, names of one length in byte order
lengthSortedUnits ==
  << <<"M", "B", "/", "s">>,
     <<"G", "H", "z">>, <<"G", "i", "B">>, <<"K", "i", "B">>, <<"M", "H", "z">>,
     <<"M", "i", "B">>,
     <<"G", "B">>, <<"K", "B">>, <<"M", "B">>, <<"m", "W">>,
     <<"B">>, <<"W">> >>

\* (*Unit).Comparable; a nil pointer is <<>>, a set one <<u>>
UnitComparable(u, o) ==
  IF u = <<>> \/ o = <<>> THEN FALSE ELSE u[1].Base = o[1].Base

(***************************************************************************)
(* Attribute: the four pointer fields are <<>> (nil) or <<value>>.         *)
(***************************************************************************)
NilAttribute ==
  [Float |-> <<>>, Int |-> <<>>, String |-> <<>>, Bool |-> <<>>, Unit |-> <<>>]

FloatAttr(f, unit) == [NilAttribute EXCEPT !.Float = <<f>>, !.Unit = unit]

IntAttr(i, unit) == [NilAttribute EXCEPT !.Int = <<i>>, !.Unit = unit]

StringAttr(s) == [NilAttribute EXCEPT !.String = <<s>>]

BoolAttr(v) == [NilAttribute EXCEPT !.Bool = <<v>>]

\* Validate without the check that only an Int or a Float carries a unit
ValidateNoKindCheck(x) ==
  IF x.Unit # <<>> /\ x.Unit \notin DOMAIN UnitIndex
  THEN "unrecognized unit"
  ELSE LET set == Len(x.Float) + Len(x.Int) + Len(x.String) + Len(x.Bool)
       IN  IF set = 0 THEN "no attribute value set"
           ELSE IF set > 1 THEN "only one attribute value may be set"
           ELSE "nil"

\* (*Attribute).Validate: "nil" or the error
Validate(x) ==
  IF x.Unit # <<>> /\ x.Unit \notin DOMAIN UnitIndex
  THEN "unrecognized unit"
  ELSE IF x.Unit # <<>> /\ (x.String # <<>> \/ x.Bool # <<>>)
  THEN "unit can not be specified on a boolean or string attribute"
  ELSE LET set == Len(x.Float) + Len(x.Int) + Len(x.String) + Len(x.Bool)
       IN  IF set = 0 THEN "no attribute value set"
           ELSE IF set > 1 THEN "only one attribute value may be set"
           ELSE "nil"

\* (*Attribute).getTypedUnit: UnitIndex[a.Unit], nil for a missing key
getTypedUnit(x) ==
  IF x.Unit \in DOMAIN UnitIndex THEN <<UnitIndex[x.Unit]>> ELSE <<>>

\* (*Attribute).Comparable, for non-nil attributes
unitsComparable(x, y, aUnit, bUnit) ==
  IF aUnit # <<>> /\ bUnit # <<>> THEN UnitComparable(aUnit, bUnit)
  ELSE IF aUnit # <<>> /\ bUnit = <<>> THEN FALSE
  ELSE IF aUnit = <<>> /\ bUnit # <<>> THEN FALSE
  ELSE IF x.String # <<>> THEN y.String # <<>>
  ELSE IF x.Bool # <<>> THEN y.Bool # <<>>
  ELSE TRUE

Comparable(x, y) == unitsComparable(x, y, getTypedUnit(x), getTypedUnit(y))

\* what a comparison does: it returns (ord, comparable), or it panics
Returns(ord, comparable) == [status |-> "returned", ord |-> ord, comparable |-> comparable]

Panics == [status |-> "panic", ord |-> 0, comparable |-> FALSE]

\* boolComparitor, had it ordered false before true
boolComparitorOrdered(x, y) ==
  IF y.Bool = <<>> THEN Panics
  ELSE IF x.Bool[1] = y.Bool[1] THEN Returns(0, TRUE)
  ELSE IF x.Bool[1] THEN Returns(1, TRUE)
  ELSE Returns(-1, TRUE)

\* (*Attribute).boolComparitor; *b.Bool on a nil pointer panics
boolComparitor(x, y) ==
  IF y.Bool = <<>> THEN Panics
  ELSE IF x.Bool[1] = y.Bool[1] THEN Returns(0, TRUE)
  ELSE Returns(1, TRUE)

\* (*Attribute).stringComparitor; *b.String on a nil pointer panics
stringComparitor(x, y) ==
  IF y.String = <<>> THEN Panics
  ELSE Returns(StringsCompare(x.String[1], y.String[1]), TRUE)

\* (*Attribute).getInt
toBaseInt(i, u) ==
  IF u = <<>> THEN i
  ELSE IF u[1].InverseMultiplier THEN I64Quo(i, I64(u[1].Multiplier))
  ELSE I64Mul(i, I64(u[1].Multiplier))

getInt(x) == IF x.Int = <<>> THEN I64(0) ELSE toBaseInt(x.Int[1], getTypedUnit(x))

\* (*Attribute).intComparitor
intOrder(ai, bi) ==
  IF I64Cmp(ai, bi) = 0 THEN Returns(0, TRUE)
  ELSE IF I64Cmp(ai, bi) < 0 THEN Returns(-1, TRUE)
  ELSE Returns(1, TRUE)

intComparitor(x, y) == intOrder(getInt(x), getInt(y))

\* the multiplier getBigFloat scales by: the unit's, or its inverse 1/m
getMultiplier(u) ==
  IF u.InverseMultiplier
  THEN BFQuo(BFSetFloat64(F64Fin(FALSE, <<1>>, 0)), BFSetInt64(I64(u.Multiplier)))
  ELSE BFSetInt64(I64(u.Multiplier))

BigValue(f) ==
  IF f.form = "panic" THEN [kind |-> "panic", f |-> BFZero(FALSE)]
  ELSE [kind |-> "value", f |-> f]

\* the second half of getBigFloat: f converted to the base unit of u
toBaseFloat(f, u) ==
  IF f.form = "panic" \/ u = <<>> THEN BigValue(f)
  ELSE BigValue(BFMul(f, getMultiplier(u[1])))

\* (*Attribute).getBigFloat: [kind, f] with kind "nil" (a nil pointer),
\* "panic" (big.ErrNaN) or "value"
getBigFloat(x) ==
  IF x.Int # <<>> THEN toBaseFloat(BFSetInt64(x.Int[1]), getTypedUnit(x))
  ELSE IF x.Float # <<>> THEN toBaseFloat(BFSetFloat64(x.Float[1]), getTypedUnit(x))
  ELSE [kind |-> "nil", f |-> BFZero(FALSE)]

\* the end of numberComparitor, both operands pushed into the float space
floatOrder(af, bf) ==
  IF af.kind = "panic" \/ bf.kind = "panic" THEN Panics
  ELSE IF af.kind = "nil" \/ bf.kind = "nil" THEN Returns(0, FALSE)
  ELSE Returns(BFCmp(af.f, bf.f), TRUE)

\* (*Attribute).numberComparitor
numberComparitor(x, y) ==
  IF x.Int # <<>> /\ y.Int # <<>> THEN intComparitor(x, y)
  ELSE floatOrder(getBigFloat(x), getBigFloat(y))

\* nullComparitor
nullComparitor(y) == Returns(0, FALSE)

\* (*Attribute).comparitor, applied to the other attribute
comparitor(x, y) ==
  IF x.Bool # <<>> THEN boolComparitor(x, y)
  ELSE IF x.String # <<>> THEN stringComparitor(x, y)
  ELSE IF x.Int # <<>> \/ x.Float # <<>> THEN numberComparitor(x, y)
  ELSE nullComparitor(y)

\* (*Attribute).Compare
Compare(x, y) ==
  IF ~Comparable(x, y) THEN Returns(0, FALSE) ELSE comparitor(x, y)

\* the suffix loop, had it run from the shortest name to the longest
MatchUnitShortest(in) ==
  LET M == {i \in DOMAIN lengthSortedUnits : HasSuffix(in, lengthSortedUnits[i])}
  IN  IF M = {} THEN <<>> ELSE lengthSortedUnits[SetMax(M)]

\* the first name of lengthSortedUnits that is a suffix of the input, "" if
\* none is (the loop of ParseAttribute)
MatchUnit(in) ==
  LET M == {i \in DOMAIN lengthSortedUnits : HasSuffix(in, lengthSortedUnits[i])}
  IN  IF M = {} THEN <<>> ELSE lengthSortedUnits[SetMin(M)]

\* ParseAttribute from "Try to parse as an int" on the whole input: i and f
\* are what ParseInt(input) and ParseFloat(input) return, made the calls
\* already made
parseWhole(in, made, i, f) ==
  IF i.ok
  THEN [attr  |-> IntAttr(i.v, <<>>),
        calls |-> made \o <<"ParseInt(input)">>]
  ELSE IF f.ok
  THEN [attr  |-> FloatAttr(f.v, <<>>),
        calls |-> made \o <<"ParseInt(input)", "ParseFloat(input)">>]
  ELSE [attr  |-> StringAttr(in),
        calls |-> made \o <<"ParseInt(input)", "ParseFloat(input)">>]

\* ParseAttribute, had it returned the string as soon as the remainder failed
parseNumericReturnsEarly(in, unit, i, f) ==
  IF i.ok
  THEN [attr  |-> IntAttr(i.v, unit),
        calls |-> <<"ParseBool(input)", "ParseInt(numeric)">>]
  ELSE IF f.ok
  THEN [attr  |-> FloatAttr(f.v, unit),
        calls |-> <<"ParseBool(input)", "ParseInt(numeric)", "ParseFloat(numeric)">>]
  ELSE [attr  |-> StringAttr(in),
        calls |-> <<"ParseBool(input)", "ParseInt(numeric)", "ParseFloat(numeric)">>]

\* ParseAttribute with a unit matched: i and f are what ParseInt(numeric) and
\* ParseFloat(numeric) return; when both fail, control leaves the if block
\* and goes on to the whole input
parseNumeric(in, unit, i, f) ==
  IF i.ok
  THEN [attr  |-> IntAttr(i.v, unit),
        calls |-> <<"ParseBool(input)", "ParseInt(numeric)">>]
  ELSE IF f.ok
  THEN [attr  |-> FloatAttr(f.v, unit),
        calls |-> <<"ParseBool(input)", "ParseInt(numeric)", "ParseFloat(numeric)">>]
  ELSE parseWhole(in,
                  <<"ParseBool(input)", "ParseInt(numeric)", "ParseFloat(numeric)">>,
                  ParseInt(in), ParseFloat(in))

\* ParseAttribute, had it kept an unknown trailing letter as the unit
parseSuffixedAnyLetters(in, unit, numeric) ==
  IF Len(unit) = 0
  THEN [attr  |-> [StringAttr(in) EXCEPT !.Unit = <<in[Len(in)]>>],
        calls |-> <<"ParseBool(input)">>]
  ELSE parseNumeric(in, unit, ParseInt(numeric), ParseFloat(numeric))

\* ParseAttribute on an input ending in a letter, unit the suffix matched
parseSuffixed(in, unit, numeric) ==
  IF Len(unit) = 0
  THEN [attr |-> StringAttr(in), calls |-> <<"ParseBool(input)">>]
  ELSE parseNumeric(in, unit, ParseInt(numeric), ParseFloat(numeric))

\* ParseAttribute: the attribute returned and the strconv calls made, in order
ParseRun(in) ==
  IF Len(in) = 0 THEN [attr |-> StringAttr(in), calls |-> <<>>]
  ELSE IF ParseBool(in).ok
  THEN [attr |-> BoolAttr(ParseBool(in).v), calls |-> <<"ParseBool(input)">>]
  ELSE IF IsLetter(in[Len(in)])
  THEN parseSuffixed(in, MatchUnit(in), TrimSpace(TrimSuffix(in, MatchUnit(in))))
  ELSE parseWhole(in, <<"ParseBool(input)">>, ParseInt(in), ParseFloat(in))

ParseAttribute(in) == ParseRun(in).attr

(***************************************************************************)
(* The values the attributes and inputs range over.                        *)
(***************************************************************************)
MaxSmall == 1

MaxHead == 2

SmallInts == (0 - MaxSmall)..MaxSmall

Abs(n) == IF n < 0 THEN 0 - n ELSE n

\* the float64 of a small integer
F64OfInt(n) == F64Canon(n < 0, BFromNat(Abs(n)), 0)

NoUnit == <<>>

MiB == <<"M", "i", "B">>

GiB == <<"G", "i", "B">>

Watt == <<"W">>

MilliWatt == <<"m", "W">>

MHz == <<"M", "H", "z">>

CompareUnits == {NoUnit, MiB, GiB, Watt, MilliWatt}

BigInt(n, shift) == [neg |-> FALSE, mag |-> BShl(BFromNat(n), shift)]

\* Int attributes: the small integers with every unit, and the values on
\* which the scaling matters
IntAttrs ==
  {IntAttr(I64(n), u) : n \in SmallInts, u \in CompareUnits}
  \cup {IntAttr(I64(5), MHz), IntAttr(I64(5), Watt),
        IntAttr(I64(1024), MiB), IntAttr(I64(1500), MilliWatt),
        IntAttr(BigInt(1, 34), GiB), IntAttr(MaxInt64, NoUnit)}

\* Float attributes: the same, and the signed zero, NaN and the infinities
FloatAttrs ==
  {FloatAttr(F64OfInt(n), u) : n \in SmallInts, u \in CompareUnits}
  \cup {FloatAttr(F64Fin(FALSE, <<3>>, 0 - 1), Watt),
        FloatAttr(F64OfInt(1500), MilliWatt),
        FloatAttr(F64OfInt(1024), MiB),
        FloatAttr(F64Fin(TRUE, <<>>, 0), NoUnit),
        FloatAttr(F64NaN, NoUnit), FloatAttr(F64NaN, MiB),
        FloatAttr(F64Inf(FALSE), GiB), FloatAttr(F64Inf(TRUE), NoUnit)}

StringVals == {<<>>, <<"a">>, <<"t", "r", "u", "e">>}

\* attributes that pass Validate
ValidAttrs ==
  IntAttrs \cup FloatAttrs
  \cup {StringAttr(s) : s \in StringVals}
  \cup {BoolAttr(v) : v \in BOOLEAN}

\* attributes as a caller may assemble them: any of the four fields set or
\* not, and any unit string
Option(v) == {<<>>, <<v>>}

ValidateUnits == {NoUnit, MiB, MilliWatt, <<"B">>, <<"k", "g">>, <<"m", "i", "b">>}

AnyAttrs ==
  [Float  : UNION {Option(f) : f \in {F64OfInt(1), F64NaN}},
   Int    : UNION {Option(i) : i \in {I64(0), I64(5)}},
   String : UNION {Option(s) : s \in {<<>>, <<"a">>}},
   Bool   : UNION {Option(v) : v \in BOOLEAN},
   Unit   : ValidateUnits]

\* the inputs of ParseAttribute: a head of at most MaxHead characters, or one
\* of a few words, then nothing or a space, then a tail: nothing, a unit
\* name, or letters that are no unit
HeadChars == {"1", "5", "-", ".", " "}

RECURSIVE SeqsUpTo(_, _)
SeqsUpTo(S, n) ==
  IF n = 0 THEN {<<>>}
  ELSE SeqsUpTo(S, n - 1)
       \cup {Append(w, c) : w \in {v \in SeqsUpTo(S, n - 1) : Len(v) = n - 1}, c \in S}

HeadWords ==
  {<<"N", "a", "N">>, <<"I", "n", "f">>, <<"-", "i", "n", "f">>,
   <<"t", "r", "u", "e">>, <<"1", "0", ".", "0">>, <<"1", "0", "2", "4">>, <<"x">>}

Heads == SeqsUpTo(HeadChars, MaxHead) \cup HeadWords

Gaps == {<<>>, <<" ">>}

Tails ==
  {<<>>} \cup UnitNames
  \cup {<<"i", "B">>, <<"k", "g">>, <<"T">>, <<"H", "z">>, <<"B", "s">>}

Inputs == {h \o g \o t : h \in Heads, g \in Gaps, t \in Tails}

\* the attribute the parsed one is compared with
Probe == IntAttr(I64(1), MiB)

(***************************************************************************)
(* The caller: it assembles or parses an attribute, validates it and       *)
(* compares it with another.                                               *)
(***************************************************************************)
Idle ==
  /\ calls = <<>>
  /\ ret = Returns(0, FALSE)
  /\ ret2 = Returns(0, FALSE)

\* a := ParseAttribute(input)
ParseStep ==
  /\ pc = "input"
  /\ a' = ParseAttribute(input)
  /\ calls' = ParseRun(input).calls
  /\ pc' = "assembled"
  /\ UNCHANGED <<input, b, err, ret, ret2>>

\* err := a.Validate()
ValidateStep ==
  /\ pc = "assembled"
  /\ err' = Validate(a)
  /\ pc' = "validated"
  /\ UNCHANGED <<input, a, b, calls, ret, ret2>>

\* ret := a.Compare(b), once a is known to be valid
CompareStep ==
  /\ pc = "validated"
  /\ err = "nil"
  /\ ret' = Compare(a, b)
  /\ pc' = "compared"
  /\ UNCHANGED <<input, a, b, calls, err, ret2>>

\* ret2 := b.Compare(a)
CompareBackStep ==
  /\ pc = "compared"
  /\ ret2' = Compare(b, a)
  /\ pc' = "compared both"
  /\ UNCHANGED <<input, a, b, calls, err, ret>>

\* an attribute assembled field by field, then validated; b keeps it as given
InitValidate ==
  /\ pc = "assembled"
  /\ input = <<>>
  /\ a \in AnyAttrs
  /\ b = a
  /\ err = "none"
  /\ Idle

NextValidate == ValidateStep

SpecValidate == InitValidate /\ [][NextValidate]_vars

\* a string parsed, the result validated and compared with the probe
InitParse ==
  /\ pc = "input"
  /\ input \in Inputs
  /\ a = NilAttribute
  /\ b = Probe
  /\ err = "none"
  /\ Idle

NextParse == ParseStep \/ ValidateStep \/ CompareStep

SpecParse == InitParse /\ [][NextParse]_vars

\* two valid attributes compared, each with the other
InitCompare ==
  /\ pc = "validated"
  /\ input = <<>>
  /\ a \in ValidAttrs
  /\ b \in ValidAttrs
  /\ err = Validate(a)
  /\ Idle

NextCompare == CompareStep \/ CompareBackStep

SpecCompare == InitCompare /\ [][NextCompare]_vars

Init == InitValidate \/ InitParse \/ InitCompare

Next == ParseStep \/ ValidateStep \/ CompareStep \/ CompareBackStep

Spec == Init /\ [][Next]_vars

(***************************************************************************)
(* What the statements speak of.                                           *)
(***************************************************************************)
SlotsSet(x) == Len(x.Float) + Len(x.Int) + Len(x.String) + Len(x.Bool)

IsNumeric(x) == x.Int # <<>> \/ x.Float # <<>>

BothValid == Validate(a) = "nil" /\ Validate(b) = "nil"

\* both units resolve in the registry and have one base dimension
SameDimension(x, y) ==
  /\ x.Unit \in UnitNames
  /\ y.Unit \in UnitNames
  /\ UnitIndex[x.Unit].Base = UnitIndex[y.Unit].Base

\* neither has a unit, and the two are of one kind
SameKindNoUnit(x, y) ==
  /\ x.Unit = <<>>
  /\ y.Unit = <<>>
  /\ \/ x.String # <<>> /\ y.String # <<>>
     \/ x.Bool # <<>> /\ y.Bool # <<>>
     \/ IsNumeric(x) /\ IsNumeric(y)

\* C1: for valid a and b, Compare(a, b) returns, and its boolean is true
\* exactly when the units resolve to one base dimension, or neither has a
\* unit and both are String, both Bool or both numeric.
C1_CompareBoolean ==
  (pc = "compared" /\ BothValid)
    => /\ ret.status = "returned"
       /\ ret.comparable <=> (SameDimension(a, b) \/ SameKindNoUnit(a, b))

\* C2: for valid a and b, Comparable(a, b) = Comparable(b, a), and the
\* booleans of Compare(a, b) and Compare(b, a) are equal.
C2_Symmetric ==
  (pc = "compared both" /\ BothValid)
    => /\ Comparable(a, b) = Comparable(b, a)
       /\ ret.status = "returned"
       /\ ret2.status = "returned"
       /\ ret.comparable = ret2.comparable

\* C3: when Compare(a, b) reports comparable = true for valid a and b, then
\* Compare(b, a) does too; for two numbers or two strings the orderings are
\* in {-1, 0, 1} and negate each other; for two booleans they are equal, 0
\* when the booleans are equal and 1 otherwise.
C3_Orderings ==
  (pc = "compared both" /\ BothValid /\ ret.status = "returned" /\ ret.comparable)
    => /\ ret2.status = "returned"
       /\ ret2.comparable
       /\ (IsNumeric(a) /\ IsNumeric(b)) \/ (a.String # <<>> /\ b.String # <<>>)
            => /\ ret.ord \in {-1, 0, 1}
               /\ ret2.ord = 0 - ret.ord
       /\ (a.Bool # <<>> /\ b.Bool # <<>>)
            => /\ ret.ord = ret2.ord
               /\ ret.ord = (IF a.Bool[1] = b.Bool[1] THEN 0 ELSE 1)
       /\ \/ IsNumeric(a) /\ IsNumeric(b)
          \/ a.String # <<>> /\ b.String # <<>>
          \/ a.Bool # <<>> /\ b.Bool # <<>>

\* an Int in mW against a Float in W, ordered +1 one way and -1 the other
C3_Witness ==
  /\ pc = "compared both"
  /\ BothValid
  /\ ret = Returns(1, TRUE)
  /\ ret2 = Returns(-1, TRUE)
  /\ a.Int # <<>> /\ a.Unit = MilliWatt
  /\ b.Float # <<>> /\ b.Unit = Watt

\* C4: Compare of a parsed (hence valid) attribute with a valid one returns
\* an (ordering, comparable) pair; it never panics.
C4_CompareReturns ==
  (pc = "compared" /\ BothValid) => ret.status = "returned"

\* C5: ParseAttribute returns an attribute with exactly one of Float, Int,
\* String, Bool set; its unit is non-empty only on an Int or Float and is
\* then a registered name; Validate on it returns no error.
C5_ParseValid ==
  /\ pc # "input"
       => /\ SlotsSet(a) = 1
          /\ a.Unit # <<>> => (IsNumeric(a) /\ a.Unit \in UnitNames)
  /\ pc \in {"validated", "compared"} => err = "nil"

\* a float with a unit, parsed and validated
C5_Witness ==
  /\ pc = "validated"
  /\ err = "nil"
  /\ a.Float # <<>>
  /\ a.Unit = MiB

\* C6: Validate returns no error exactly when one slot is set and the unit
\* is empty or a registered name on an Int or Float; it leaves the attribute
\* as it was.
C6_ValidateIff ==
  pc = "validated"
    => /\ err = "nil" <=> /\ SlotsSet(a) = 1
                          /\ \/ a.Unit = <<>>
                             \/ a.Unit \in UnitNames /\ IsNumeric(a)
       /\ a = b

\* a string with a registered unit, rejected and unchanged
C6_Witness ==
  /\ pc = "validated"
  /\ err = "unit can not be specified on a boolean or string attribute"
  /\ SlotsSet(a) = 1
  /\ a.Unit = MiB
  /\ a = b

\* C7: for a registered unit u and a string N that ParseInt or ParseFloat
\* accepts, ParseAttribute(N + u) has unit u and payload Int(N) when N parses
\* as an integer, Float(N) otherwise.
C7_RoundTrip ==
  pc # "input"
    => \A u \in UnitNames :
         HasSuffix(input, u)
           => /\ ParseInt(TrimSuffix(input, u)).ok
                   => a = IntAttr(ParseInt(TrimSuffix(input, u)).v, u)
              /\ (~ParseInt(TrimSuffix(input, u)).ok /\ ParseFloat(TrimSuffix(input, u)).ok)
                   => a = FloatAttr(ParseFloat(TrimSuffix(input, u)).v, u)

\* "5MiB": B is a suffix too, the unit is MiB
C7_Witness ==
  /\ pc = "assembled"
  /\ input = <<"5">> \o MiB
  /\ a = IntAttr(I64(5), MiB)

\* the longest registered unit name that is a suffix of the input
LongestUnitSuffix(in) ==
  CHOOSE u \in UnitNames :
    /\ HasSuffix(in, u)
    /\ \A v \in UnitNames : HasSuffix(in, v) => Len(v) <= Len(u)

\* the input ends in a letter and in a unit name, is no boolean literal, and
\* what is left of it is no number
SpuriousUnit(in) ==
  /\ Len(in) > 0
  /\ ~ParseBool(in).ok
  /\ IsLetter(in[Len(in)])
  /\ \E u \in UnitNames : HasSuffix(in, u)
  /\ ~ParseInt(TrimSpace(TrimSuffix(in, LongestUnitSuffix(in)))).ok
  /\ ~ParseFloat(TrimSpace(TrimSuffix(in, LongestUnitSuffix(in)))).ok

WholeInputCalls == {"ParseInt(input)", "ParseFloat(input)"}

\* C8, as stated: on a spurious unit ParseAttribute returns String(input)
\* with no unit, and makes no attempt to parse the whole input as an integer
\* or a float.
C8_AsStated ==
  (pc # "input" /\ SpuriousUnit(input))
    => /\ a = StringAttr(input)
       /\ \A k \in DOMAIN calls : calls[k] \notin WholeInputCalls

\* C8: on a spurious unit ParseAttribute returns String(input) with no unit,
\* after it tried the remainder and then the whole input as an integer and as
\* a float.
C8_BackOff ==
  (pc # "input" /\ SpuriousUnit(input))
    => /\ a = StringAttr(input)
       /\ a.Unit = <<>>
       /\ calls = <<"ParseBool(input)", "ParseInt(numeric)", "ParseFloat(numeric)",
                    "ParseInt(input)", "ParseFloat(input)">>

\* "xMiB": the unit MiB matches, "x" is no number
C8_Witness ==
  /\ pc = "assembled"
  /\ input = <<"x">> \o MiB
  /\ SpuriousUnit(input)
  /\ a = StringAttr(input)
  /\ Len(calls) = 5

\* the payload times the multiplier of the unit, over unbounded integers
ExactScaled(x) ==
  [neg |-> x.Int[1].neg,
   mag |-> IF x.Unit = <<>> THEN x.Int[1].mag
           ELSE BMul(x.Int[1].mag, BFromNat(UnitIndex[x.Unit].Multiplier))]

\* the units are both absent, or registered, not inverse, of one dimension
PlainUnits(x, y) ==
  \/ x.Unit = <<>> /\ y.Unit = <<>>
  \/ /\ SameDimension(x, y)
     /\ ~UnitIndex[x.Unit].InverseMultiplier
     /\ ~UnitIndex[y.Unit].InverseMultiplier

\* C9: for Int a and b with plain units, the ordering of Compare(a, b) is
\* the sign of a*mult(a) - b*mult(b) over unbounded integers.
C9_IntPathExact ==
  (pc = "compared" /\ BothValid /\ a.Int # <<>> /\ b.Int # <<>> /\ PlainUnits(a, b))
    => ret = Returns(I64Cmp(ExactScaled(a), ExactScaled(b)), TRUE)

\* the int64 is a float64: its odd part has at most Float64MantBits bits
Representable(i) ==
  i.mag = <<>> \/ BBitLen(i.mag) - BTrailingZeros(i.mag) <= Float64MantBits

\* the attribute with its Int payload replaced by the Float of that value
AsFloat(x) == FloatAttr(F64Canon(x.Int[1].neg, x.Int[1].mag, 0), x.Unit)

\* C10: for Int a and b with comparable units or none, a representable,
\* Compare(a, b) and Compare(a', b) return the same ordering, a' being a with
\* the Float payload of the same value.
C10_PathsAgree ==
  (/\ pc = "compared" /\ BothValid
   /\ a.Int # <<>> /\ b.Int # <<>>
   /\ SameDimension(a, b) \/ (a.Unit = <<>> /\ b.Unit = <<>>)
   /\ Representable(a.Int[1]))
    => /\ ret.status = "returned"
       /\ Compare(AsFloat(a), b) = ret

====
